---- MODULE Spec2Model ----
EXTENDS Integers, Sequences, FiniteSets, TLC

(***************************************************************************)
(* Embedding explorer backend: the model store (ModelLoader), the          *)
(* similarity engine (EmbeddingService), the reduction engine              *)
(* (DimensionalityReductionService) and the HTTP handlers in front of      *)
(* them.  A word is a sequence of characters, so that lower() and strip()  *)
(* are computed and not assumed.  A similarity score is the cosine in      *)
(* units of 1/SCALE; the vectors of the model have integer norms, which    *)
(* makes every score exact.                                                *)
(***************************************************************************)

VARIABLES
    exists,        \* the model files present on disk (fixed during a run)
    argsort_ties,  \* how the build's argsort orders equal keys
    tsne_fails,    \* when TSNE(...).fit_transform raises in this build
    loader,        \* the ModelLoader singleton's fields
    _cache,        \* DimensionalityReductionService._cache
    before,        \* loader and _cache as the last operation found them
    call,          \* the last operation and its arguments
    result,        \* what it returned or raised
    reads,         \* the files it read from disk
    lookups,       \* the words it handed to get_similar_words, in order
    proj,          \* the projections it ran, in order
    perplexities,  \* the perplexity of each TSNE(...) it built, in order
    requests       \* the GET /embeddings requests received by the event loop

vars ==
    <<exists, argsort_ties, tsne_fails, loader, _cache, before, call, result, reads,
      lookups, proj, perplexities, requests>>

----------------------------------------------------------------------------
(* Python values *)

None == {}
Some(x) == {x}
The(o) == CHOOSE x \in o : TRUE

NoException == "none"
Return(m, v) == [m |-> m, exc |-> NoException, val |-> v]
Raise(m, e) == [m |-> m, exc |-> e, val |-> None]

EmptyDict == [x \in {} |-> 0]
Range(f) == {f[x] : x \in DOMAIN f}

----------------------------------------------------------------------------
(* str.lower() and str.strip() *)

lower_char(ch) ==
    CASE ch = "A" -> "a"
      [] ch = "B" -> "b"
      [] ch = "C" -> "c"
      [] OTHER -> ch

lower(s) == [i \in 1..Len(s) |-> lower_char(s[i])]

RECURSIVE lstrip(_)
lstrip(s) == IF s # <<>> /\ Head(s) = " " THEN lstrip(Tail(s)) ELSE s

RECURSIVE rstrip(_)
rstrip(s) == IF s # <<>> /\ s[Len(s)] = " " THEN rstrip(SubSeq(s, 1, Len(s) - 1)) ELSE s

strip(s) == rstrip(lstrip(s))

\* word.lower().strip()
normalize(word) == strip(lower(word))

----------------------------------------------------------------------------
(* backend/config.py *)

MODEL_TYPES ==
    [tfidf |-> "TF-IDF (LSA)",
     word2vec_cbow |-> "Word2Vec (CBOW)",
     word2vec_skipgram |-> "Word2Vec (Skip-Gram)"]

MODEL_PATHS ==
    {"tfidf_word_embeddings", "tfidf_vocab", "word2vec_cbow", "word2vec_skipgram",
     "word_frequencies"}

Word2VecTypes == {"word2vec_cbow", "word2vec_skipgram"}

----------------------------------------------------------------------------
(* The artifacts on disk.  The TF-IDF vocabulary holds lowercased, trimmed   *)
(* words with dense indices from 0; row i of a matrix belongs to index i.   *)
(* The CBOW model has one key that is not lowercased: the loader takes the  *)
(* keys as the file has them.                                               *)

wa == <<"a">>
wb == <<"b">>
wc == <<"c">>
wab == <<"a", "b">>
wC == <<"C">>

tfidf_vocab_pkl == (wa :> 0) @@ (wb :> 1) @@ (wc :> 2) @@ (wab :> 3)

\* a: b and c tie at 0.6, ab at 0.8;  b: a 0.6, ab 0,  c -0.28
tfidf_word_embeddings_npy ==
    (0 :> <<5, 0>>) @@ (1 :> <<3, 4>>) @@ (2 :> <<3, -4>>) @@ (3 :> <<4, -3>>)

\* a: C at 1.0, b at 0.8, ab at 0.6
word2vec_cbow_model ==
    [key_to_index |-> (wa :> 0) @@ (wb :> 1) @@ (wab :> 2) @@ (wC :> 3),
     vectors |-> (0 :> <<0, 5>>) @@ (1 :> <<3, 4>>) @@ (2 :> <<-4, 3>>) @@ (3 :> <<0, 10>>),
     vector_size |-> 2]

\* a one-word model: its only word has no neighbour
word2vec_skipgram_model ==
    [key_to_index |-> (wc :> 0),
     vectors |-> (0 :> <<4, 3>>),
     vector_size |-> 2]

Word2VecFile(model_type) ==
    IF model_type = "word2vec_cbow" THEN word2vec_cbow_model ELSE word2vec_skipgram_model

\* ab is missing from the table: its frequency counts as 0
word_frequencies_pkl == (wa :> 7) @@ (wb :> 9) @@ (wc :> 7)

----------------------------------------------------------------------------
(* backend/services/model_loader.py *)

\* ModelLoader.__init__ on the first construction
NewLoader ==
    [_models |-> EmptyDict,
     _tfidf_vocab |-> None,
     _tfidf_idx_to_word |-> None,
     _tfidf_embeddings |-> None,
     _word_frequencies |-> None]

\* ModelLoader() once the singleton exists: __new__ returns cls._instance and
\* __init__ returns at once because _initialized is set.
ModelLoader_init(m) == m

Read(m, path) == [m EXCEPT !.reads = @ \cup {path}]

\* {idx: word for word, idx in vocab.items()}
InvertDict(d) == [i \in Range(d) |-> CHOOSE w \in DOMAIN d : d[w] = i]

_load_tfidf_models(m) ==
    IF m.loader._tfidf_embeddings # None THEN Return(m, None)
    ELSE IF "tfidf_word_embeddings" \notin exists THEN Raise(m, "FileNotFoundError")
    ELSE LET m1 == [Read(m, "tfidf_word_embeddings") EXCEPT
                        !.loader._tfidf_embeddings = Some(tfidf_word_embeddings_npy)]
         IN  IF "tfidf_vocab" \in exists
             THEN Return([Read(m1, "tfidf_vocab") EXCEPT
                             !.loader._tfidf_vocab = Some(tfidf_vocab_pkl),
                             !.loader._tfidf_idx_to_word = Some(InvertDict(tfidf_vocab_pkl))],
                         None)
             ELSE Raise(m1, "FileNotFoundError")

\* _load_word2vec_model without the "model_type in self._models" check.
_load_word2vec_model_reload(m, model_type) ==
    IF model_type \in exists
    THEN Return([Read(m, model_type) EXCEPT
                    !.loader._models = (model_type :> Word2VecFile(model_type)) @@ @],
                Word2VecFile(model_type))
    ELSE Raise(m, "FileNotFoundError")

_load_word2vec_model(m, model_type) ==
    IF model_type \in DOMAIN m.loader._models
    THEN Return(m, m.loader._models[model_type])
    ELSE IF model_type \in exists
    THEN Return([Read(m, model_type) EXCEPT
                    !.loader._models = (model_type :> Word2VecFile(model_type)) @@ @],
                Word2VecFile(model_type))
    ELSE Raise(m, "FileNotFoundError")

_load_word_frequencies(m) ==
    IF m.loader._word_frequencies # None THEN Return(m, The(m.loader._word_frequencies))
    ELSE IF "word_frequencies" \in exists
    THEN Return([Read(m, "word_frequencies") EXCEPT
                    !.loader._word_frequencies = Some(word_frequencies_pkl)],
                word_frequencies_pkl)
    ELSE Return(m, EmptyDict)

get_tfidf_embeddings(m) ==
    LET r == _load_tfidf_models(m)
    IN  IF r.exc # NoException THEN r ELSE Return(r.m, r.m.loader._tfidf_embeddings)

get_tfidf_vocab(m) ==
    LET r == _load_tfidf_models(m)
    IN  IF r.exc # NoException THEN r ELSE Return(r.m, r.m.loader._tfidf_vocab)

get_tfidf_idx_to_word(m) ==
    LET r == _load_tfidf_models(m)
    IN  IF r.exc # NoException THEN r ELSE Return(r.m, r.m.loader._tfidf_idx_to_word)

get_word2vec_cbow(m) == _load_word2vec_model(m, "word2vec_cbow")

get_word2vec_skipgram(m) == _load_word2vec_model(m, "word2vec_skipgram")

get_word_frequencies(m) == _load_word_frequencies(m)

\* is_word_in_vocab testing the word as it was given
is_word_in_vocab_as_given(m, word, model_type) ==
    LET Tfidf(r) ==
            IF r.exc # NoException THEN r
            ELSE IF r.m.loader._tfidf_vocab = None THEN Raise(r.m, "TypeError")
            ELSE Return(r.m, word \in DOMAIN The(r.m.loader._tfidf_vocab))
        Model(r) ==
            IF r.exc # NoException THEN r
            ELSE Return(r.m, word \in DOMAIN r.val.key_to_index)
    IN  IF model_type = "tfidf" THEN Tfidf(_load_tfidf_models(m))
        ELSE IF model_type \in Word2VecTypes THEN Model(_load_word2vec_model(m, model_type))
        ELSE Return(m, FALSE)

is_word_in_vocab(m, raw, model_type) ==
    LET word == normalize(raw)
        Tfidf(r) ==
            IF r.exc # NoException THEN r
            ELSE IF r.m.loader._tfidf_vocab = None
            THEN Raise(r.m, "TypeError")       \* word in None
            ELSE Return(r.m, word \in DOMAIN The(r.m.loader._tfidf_vocab))
        Model(r) ==
            IF r.exc # NoException THEN r
            ELSE Return(r.m, word \in DOMAIN r.val.key_to_index)
    IN  IF model_type = "tfidf" THEN Tfidf(_load_tfidf_models(m))
        ELSE IF model_type \in Word2VecTypes THEN Model(_load_word2vec_model(m, model_type))
        ELSE Return(m, FALSE)

ModelInfo(model_type, display_name, vocab_size, vector_dimensions, is_loaded) ==
    [model_type |-> model_type, display_name |-> display_name, vocab_size |-> vocab_size,
     vector_dimensions |-> vector_dimensions, is_loaded |-> is_loaded]

DisplayName(model_type) ==
    IF model_type \in DOMAIN MODEL_TYPES THEN MODEL_TYPES[model_type] ELSE "Unknown"

get_model_info(m, model_type) ==
    IF model_type = "tfidf"
    THEN LET r == _load_tfidf_models(m)
         IN  IF r.exc = "FileNotFoundError"
             THEN Return(r.m, ModelInfo(model_type, DisplayName(model_type), 0, 0, FALSE))
             ELSE IF r.m.loader._tfidf_vocab = None
             THEN Raise(r.m, "TypeError")     \* len(None)
             ELSE Return(r.m, ModelInfo(model_type, MODEL_TYPES[model_type],
                                        Cardinality(DOMAIN The(r.m.loader._tfidf_vocab)),
                                        Len(The(r.m.loader._tfidf_embeddings)[0]), TRUE))
    ELSE IF model_type \in Word2VecTypes
    THEN LET r == _load_word2vec_model(m, model_type)
         IN  IF r.exc = "FileNotFoundError"
             THEN Return(r.m, ModelInfo(model_type, DisplayName(model_type), 0, 0, FALSE))
             ELSE Return(r.m, ModelInfo(model_type, MODEL_TYPES[model_type],
                                        Cardinality(DOMAIN r.val.key_to_index),
                                        r.val.vector_size, TRUE))
    ELSE Return(m, ModelInfo(model_type, "Unknown", 0, 0, FALSE))

----------------------------------------------------------------------------
(* numpy / scikit-learn / gensim *)

\* a score is a cosine in units of 1/SCALE
SCALE == 1000 * 1000

Dot(a, b) == a[1] * b[1] + a[2] * b[2]

\* the Euclidean norm; the vectors of the model have integer norms
Norm(v) == CHOOSE n \in 0..Dot(v, v) : n * n = Dot(v, v)

\* sklearn.metrics.pairwise.cosine_similarity on two rows; a zero row is left
\* unscaled by normalize(), which gives 0
cosine(a, b) ==
    IF Norm(a) = 0 \/ Norm(b) = 0 THEN 0
    ELSE (Dot(a, b) * SCALE) \div (Norm(a) * Norm(b))

\* cosine_similarity(word_vector, embeddings)[0]
cosine_similarity(word_vector, embeddings) ==
    [idx \in DOMAIN embeddings |-> cosine(word_vector, embeddings[idx])]

RECURSIVE SortByKey(_, _)
SortByKey(S, key) ==
    IF S = {} THEN <<>>
    ELSE LET x == CHOOSE x \in S : \A y \in S : key[x] <= key[y]
         IN  <<x>> \o SortByKey(S \ {x}, key)

\* ndarray.argsort(): ascending by value.  The default kind is not stable, so
\* the order of equal values is the build's (argsort_ties).
argsort(a) ==
    LET n == Cardinality(DOMAIN a)
        key == [i \in DOMAIN a |->
                   a[i] * n + (IF argsort_ties = "ascending" THEN i ELSE n - 1 - i)]
    IN  SortByKey(DOMAIN a, key)

\* seq[::-1]
Reversed(seq) == [i \in 1..Len(seq) |-> seq[Len(seq) + 1 - i]]

\* round(s, 4): to the nearest 1/10000, halves to even
round4(s) ==
    LET q == s \div 100
        r == s % 100
    IN  IF r > 50 \/ (r = 50 /\ q % 2 = 1) THEN (q + 1) * 100 ELSE q * 100

Max(a, b) == IF a >= b THEN a ELSE b
Min(a, b) == IF a <= b THEN a ELSE b

\* gensim KeyedVectors.most_similar(word, topn): the topn keys by descending
\* cosine, the query key left out
most_similar(model, word, topn) ==
    IF topn < 1 THEN <<>>
    ELSE LET q == model.key_to_index[word]
             dists == cosine_similarity(model.vectors[q], model.vectors)
             best == Reversed(argsort(dists))
             idx_to_key == InvertDict(model.key_to_index)
             kept == SelectSeq(best, LAMBDA i : i # q)
         IN  [k \in 1..Min(topn, Len(kept)) |-> <<idx_to_key[kept[k]], dists[kept[k]]>>]

----------------------------------------------------------------------------
(* backend/services/embedding_service.py *)

Message(text, word) == Some([text |-> text, word |-> word])

\* str(e)
ExceptionText(exc) ==
    IF exc = "FileNotFoundError" THEN Message("model file not found", <<>>)
    ELSE Message("argument of type 'NoneType' is not iterable", <<>>)

\* the loop of lines 53-60: walk top_indices until topn results are collected
RECURSIVE TfidfCollect(_, _, _, _, _, _)
TfidfCollect(top_indices, results, topn, word_idx, idx_to_word, similarities) ==
    IF top_indices = <<>> \/ Len(results) >= topn THEN results
    ELSE LET idx == Head(top_indices)
         IN  TfidfCollect(Tail(top_indices),
                          IF idx # word_idx
                          THEN Append(results, <<idx_to_word[idx], similarities[idx]>>)
                          ELSE results,
                          topn, word_idx, idx_to_word, similarities)

\* the loop without the "idx != word_idx" test
RECURSIVE TfidfCollect_keep_self(_, _, _, _, _, _)
TfidfCollect_keep_self(top_indices, results, topn, word_idx, idx_to_word, similarities) ==
    IF top_indices = <<>> \/ Len(results) >= topn THEN results
    ELSE LET idx == Head(top_indices)
         IN  TfidfCollect_keep_self(Tail(top_indices),
                          Append(results, <<idx_to_word[idx], similarities[idx]>>),
                          topn, word_idx, idx_to_word, similarities)

\* lines 44-62, once the three tables are there and the word is in vocab
TfidfRank_keep_self(vocab, embeddings, idx_to_word, word, topn) ==
    LET word_idx == vocab[word]
        similarities == cosine_similarity(embeddings[word_idx], embeddings)
        top_indices == Reversed(argsort(similarities))
    IN  TfidfCollect_keep_self(top_indices, <<>>, topn, word_idx, idx_to_word, similarities)

TfidfRank(vocab, embeddings, idx_to_word, word, topn) ==
    LET word_idx == vocab[word]
        similarities == cosine_similarity(embeddings[word_idx], embeddings)
        top_indices == Reversed(argsort(similarities))
    IN  TfidfCollect(top_indices, <<>>, topn, word_idx, idx_to_word, similarities)

get_similar_words_tfidf(m, raw, topn) ==
    LET word == normalize(raw)
        Failed(r) == Return(r.m, <<<<>>, FALSE, ExceptionText(r.exc)>>)
        WithTables(r1, r2, r3) ==
            IF r1.exc # NoException THEN Failed(r1)
            ELSE IF r2.exc # NoException THEN Failed(r2)
            ELSE IF r3.exc # NoException THEN Failed(r3)
            ELSE IF r1.val = None              \* "word not in None" raises TypeError
            THEN Return(r3.m, <<<<>>, FALSE, ExceptionText("TypeError")>>)
            ELSE IF word \notin DOMAIN The(r1.val)
            THEN Return(r3.m, <<<<>>, FALSE, Message("not found in TF-IDF vocabulary", word)>>)
            ELSE Return(r3.m, <<TfidfRank(The(r1.val), The(r2.val), The(r3.val), word, topn),
                                TRUE, None>>)
        WithEmbeddings(r1, r2) == WithTables(r1, r2, get_tfidf_idx_to_word(r2.m))
        WithVocab(r1) == WithEmbeddings(r1, get_tfidf_embeddings(r1.m))
    IN  WithVocab(get_tfidf_vocab(m))

get_similar_words_word2vec(m, raw, model_type, topn) ==
    LET word == normalize(raw)
        WithModel(r) ==
            IF r.exc # NoException THEN Return(r.m, <<<<>>, FALSE, ExceptionText(r.exc)>>)
            ELSE IF word \notin DOMAIN r.val.key_to_index
            THEN Return(r.m, <<<<>>, FALSE, Message("not found in vocabulary", word)>>)
            ELSE Return(r.m, <<most_similar(r.val, word, topn), TRUE, None>>)
    IN  IF model_type = "word2vec_cbow" THEN WithModel(get_word2vec_cbow(m))
        ELSE IF model_type = "word2vec_skipgram" THEN WithModel(get_word2vec_skipgram(m))
        ELSE Return(m, <<<<>>, FALSE, Message("Unknown model type", <<>>)>>)

\* get_similar_words sending every selector to the TF-IDF path
get_similar_words_always_tfidf(m, word, model_type, topn) ==
    get_similar_words_tfidf([m EXCEPT !.lookups = Append(@, word)], word, topn)

Lookup(m, word) == [m EXCEPT !.lookups = Append(@, word)]

get_similar_words(m, word, model_type, topn) ==
    IF model_type = "tfidf" THEN get_similar_words_tfidf(Lookup(m, word), word, topn)
    ELSE IF model_type \in Word2VecTypes
    THEN get_similar_words_word2vec(Lookup(m, word), word, model_type, topn)
    ELSE Return(Lookup(m, word), <<<<>>, FALSE, Message("Unknown model type", <<>>)>>)

get_word_vector(m, raw, model_type) ==
    LET word == normalize(raw)
        TfidfRow(r1, r2) ==
            IF r1.exc # NoException THEN Return(r1.m, None)
            ELSE IF r2.exc # NoException THEN Return(r2.m, None)
            ELSE IF r1.val = None THEN Return(r2.m, None)
            ELSE IF word \notin DOMAIN The(r1.val) THEN Return(r2.m, None)
            ELSE Return(r2.m, Some(The(r2.val)[The(r1.val)[word]]))
        TfidfVocab(r1) == TfidfRow(r1, get_tfidf_embeddings(r1.m))
        ModelRow(r) ==
            IF r.exc # NoException THEN Return(r.m, None)
            ELSE IF word \notin DOMAIN r.val.key_to_index THEN Return(r.m, None)
            ELSE Return(r.m, Some(r.val.vectors[r.val.key_to_index[word]]))
    IN  IF model_type = "tfidf" THEN TfidfVocab(get_tfidf_vocab(m))
        ELSE IF model_type \in Word2VecTypes
        THEN ModelRow(_load_word2vec_model(m, model_type))
        ELSE Return(m, None)

\* [{"word": w, "similarity": s} for w, s in similar]
SimilarDicts(similar) ==
    [i \in 1..Len(similar) |-> [word |-> similar[i][1], similarity |-> similar[i][2]]]

\* [{"word": w, "similarity": round(s, 4)} for w, s in similar_words]
SimilarDictsRounded(similar) ==
    [i \in 1..Len(similar) |-> [word |-> similar[i][1], similarity |-> round4(similar[i][2])]]

CompareEntry(r) ==
    [similar_words |-> SimilarDicts(r.val[1]), in_vocabulary |-> r.val[2], message |-> r.val[3]]

\* compare_similarity with the loop ending after the first model that has the word
compare_similarity_stop_at_found(m, word, topn) ==
    LET Entries(r1, r2, r3) ==
            IF r1.val[2] THEN Return(r1.m, [tfidf |-> CompareEntry(r1)])
            ELSE Return(r3.m, [tfidf |-> CompareEntry(r1),
                               word2vec_cbow |-> CompareEntry(r2),
                               word2vec_skipgram |-> CompareEntry(r3)])
        AfterCbow(r1, r2) ==
            Entries(r1, r2, get_similar_words(r2.m, word, "word2vec_skipgram", topn))
        AfterTfidf(r1) == AfterCbow(r1, get_similar_words(r1.m, word, "word2vec_cbow", topn))
    IN  AfterTfidf(get_similar_words(m, word, "tfidf", topn))

\* for model_type in ["tfidf", "word2vec_cbow", "word2vec_skipgram"]
compare_similarity(m, word, topn) ==
    LET Entries(r1, r2, r3) ==
            Return(r3.m, [tfidf |-> CompareEntry(r1),
                          word2vec_cbow |-> CompareEntry(r2),
                          word2vec_skipgram |-> CompareEntry(r3)])
        AfterCbow(r1, r2) ==
            Entries(r1, r2, get_similar_words(r2.m, word, "word2vec_skipgram", topn))
        AfterTfidf(r1) == AfterCbow(r1, get_similar_words(r1.m, word, "word2vec_cbow", topn))
    IN  AfterTfidf(get_similar_words(m, word, "tfidf", topn))

\* list(d.keys()) of a word -> index table: the words in index order
Keys(d) == LET inv == InvertDict(d) IN [i \in 1..Cardinality(DOMAIN d) |-> inv[i - 1]]

\* frequencies.get(w, 0)
FreqOf(frequencies, w) == IF w \in DOMAIN frequencies THEN frequencies[w] ELSE 0

\* vocab_with_freq.sort(key=lambda x: x[1], reverse=True): list.sort is stable,
\* also under reverse=True
SortByFreqDesc(words, frequencies) ==
    LET n == Len(words)
        key == [i \in 1..n |-> (0 - FreqOf(frequencies, words[i])) * (n + 1) + i]
        order == SortByKey(1..n, key)
    IN  [k \in 1..n |-> words[order[k]]]

\* seq[:n]: the first n items, and for a negative n all but the last -n
Take(seq, n) ==
    SubSeq(seq, 1, IF n >= 0 THEN Min(n, Len(seq)) ELSE Max(0, Len(seq) + n))

\* the first num_words words of the vocabulary as it stands, the sort left out
TopWords_unsorted(all_words, frequencies, num_words) == Take(all_words, num_words)

\* lines 199-201 and 217-219
TopWords(all_words, frequencies, num_words) ==
    Take(SortByFreqDesc(all_words, frequencies), num_words)

\* ModelLoader.get_vocabulary_sample (model_loader.py): the frequency table
\* orders the sample when it is not empty
get_vocabulary_sample(m, model_type, n) ==
    LET Sample(f, r, vocab) ==
            IF f.val # EmptyDict THEN Return(r.m, Take(SortByFreqDesc(vocab, f.val), n))
            ELSE Return(r.m, Take(vocab, n))
        Tfidf(f, r) ==
            IF r.exc # NoException THEN r
            ELSE IF r.m.loader._tfidf_vocab = None
            THEN Raise(r.m, "AttributeError")      \* None.keys()
            ELSE Sample(f, r, Keys(The(r.m.loader._tfidf_vocab)))
        Model(f, r) ==
            IF r.exc # NoException THEN r
            ELSE Sample(f, r, Keys(r.val.key_to_index))
        WithFrequencies(f) ==
            IF model_type = "tfidf" THEN Tfidf(f, _load_tfidf_models(f.m))
            ELSE IF model_type \in Word2VecTypes
            THEN Model(f, _load_word2vec_model(f.m, model_type))
            ELSE Return(f.m, <<>>)
    IN  WithFrequencies(get_word_frequencies(m))

\* np.array([]), []
NoEmbeddings == <<<<>>, <<>>>>

get_all_embeddings(m, model_type, num_words) ==
    LET TfidfRows(f, r1, r2) ==
            IF r1.exc # NoException THEN r1
            ELSE IF r2.exc # NoException THEN r2
            ELSE IF r1.val = None THEN Raise(r2.m, "AttributeError")  \* None.keys()
            ELSE LET vocab == The(r1.val)
                     top_words == TopWords(Keys(vocab), f.val, num_words)
                 IN  Return(r2.m,
                            <<[i \in 1..Len(top_words) |-> The(r2.val)[vocab[top_words[i]]]],
                              top_words>>)
        TfidfVocab(f, r1) == TfidfRows(f, r1, get_tfidf_embeddings(r1.m))
        ModelRows(f, r) ==
            IF r.exc # NoException THEN r
            ELSE LET top_words == TopWords(Keys(r.val.key_to_index), f.val, num_words)
                 IN  Return(r.m,
                            <<[i \in 1..Len(top_words) |->
                                  r.val.vectors[r.val.key_to_index[top_words[i]]]],
                              top_words>>)
        WithFrequencies(f) ==
            IF model_type = "tfidf" THEN TfidfVocab(f, get_tfidf_vocab(f.m))
            ELSE IF model_type \in Word2VecTypes
            THEN ModelRows(f, _load_word2vec_model(f.m, model_type))
            ELSE Return(f.m, NoEmbeddings)
    IN  WithFrequencies(get_word_frequencies(m))

----------------------------------------------------------------------------
(* backend/services/dimensionality.py *)

\* f"{model_type}_{method}_{num_words}_{perplexity}"; md5 is taken to be
\* injective, the key is the string it digests
\* a key that leaves the perplexity out
_get_cache_key_without_perplexity(model_type, method, num_words, perplexity) ==
    model_type \o "_" \o method \o "_" \o ToString(num_words)

_get_cache_key(model_type, method, num_words, perplexity) ==
    model_type \o "_" \o method \o "_" \o ToString(num_words) \o "_" \o ToString(perplexity)

Projected(m, name) == [m EXCEPT !.proj = Append(@, name)]

\* the 2D array a projection returns: one row per input row, a function of the
\* whole input (the seeds are fixed)
Array2D(method, perplexity, embeddings) ==
    [method |-> method, perplexity |-> perplexity, input |-> embeddings]

EmptyArray == Array2D("none", 0, <<>>)

\* PCA(n_components=2) needs min(n_samples, n_features) >= 2
reduce_pca(m, embeddings) ==
    IF Len(embeddings) < 2 \/ Len(embeddings[1]) < 2
    THEN Raise(Projected(m, "pca"), "ValueError")
    ELSE Return(Projected(m, "pca"), Array2D("pca", 0, embeddings))

\* what TSNE(..., n_iter=1000).fit_transform does in the installed scikit-learn:
\* a build that has dropped n_iter rejects the call, a build that validates
\* perplexity wants it below n_samples, an older build does neither
TSNE_raises(adjusted_perplexity, n_samples) ==
    \/ tsne_fails = "rejects_n_iter"
    \/ tsne_fails = "checks_perplexity" /\ adjusted_perplexity >= n_samples
    \/ n_samples < 2

\* DEFAULT_PERPLEXITY
DEFAULT_PERPLEXITY == 30

\* the floor of the clamp of line 84
TSNE_MIN_PERPLEXITY == 5

\* the floor of the clamp of line 214
NEIGHBORHOOD_MIN_PERPLEXITY == 2

\* TSNE(n_components=2, perplexity=adjusted_perplexity, ...) followed by
\* fit_transform
TsneBuilt(m, adjusted_perplexity) ==
    [Projected(m, "tsne") EXCEPT !.perplexities = Append(@, adjusted_perplexity)]

\* reduce_tsne without line 84: the requested perplexity goes to TSNE as it is
reduce_tsne_unclamped(m, embeddings, perplexity) ==
    IF TSNE_raises(perplexity, Len(embeddings))
    THEN reduce_pca(TsneBuilt(m, perplexity), embeddings)
    ELSE Return(TsneBuilt(m, perplexity), Array2D("tsne", perplexity, embeddings))

\* reduce_tsne without the except of lines 98-102: a failure of TSNE leaves the call
reduce_tsne_no_fallback(m, embeddings, perplexity) ==
    LET n_samples == Len(embeddings)
        adjusted_perplexity ==
            Min(perplexity, Max(TSNE_MIN_PERPLEXITY, (n_samples - 1) \div 3))
    IN  IF TSNE_raises(adjusted_perplexity, n_samples)
        THEN Raise(TsneBuilt(m, adjusted_perplexity), "ValueError")
        ELSE Return(TsneBuilt(m, adjusted_perplexity),
                    Array2D("tsne", adjusted_perplexity, embeddings))

reduce_tsne(m, embeddings, perplexity) ==
    LET n_samples == Len(embeddings)
        adjusted_perplexity ==
            Min(perplexity, Max(TSNE_MIN_PERPLEXITY, (n_samples - 1) \div 3))
    IN  IF TSNE_raises(adjusted_perplexity, n_samples)
        THEN reduce_pca(TsneBuilt(m, adjusted_perplexity), embeddings)   \* the fallback
        ELSE Return(TsneBuilt(m, adjusted_perplexity),
                    Array2D("tsne", adjusted_perplexity, embeddings))

Reduce(m, method, embeddings, perplexity) ==
    IF method = "pca" THEN reduce_pca(m, embeddings)
    ELSE IF method = "tsne" THEN reduce_tsne(m, embeddings, perplexity)
    ELSE Raise(m, "ValueError")

\* line 130 with the lookup left out: every call recomputes
CacheHit_never(m, cache_key, use_cache) == FALSE

\* the cache test of line 130
CacheHit(m, cache_key, use_cache) == use_cache /\ cache_key \in DOMAIN m.cache

\* line 155 as "self._cache = {cache_key: result}": the other entries are lost
CacheStore_alone(m, cache_key, value) == [m EXCEPT !.cache = (cache_key :> value)]

\* self._cache[cache_key] = result
CacheStore(m, cache_key, value) ==
    [m EXCEPT !.cache = [k \in DOMAIN @ \cup {cache_key} |->
                            IF k = cache_key THEN value ELSE @[k]]]

get_reduced_embeddings(m, model_type, method, num_words, perplexity, use_cache) ==
    LET cache_key == _get_cache_key(model_type, method, num_words, perplexity)
        Store(words, r, f) ==
            LET word_freqs == [i \in 1..Len(words) |-> FreqOf(f.val, words[i])]
                value == <<r.val, words, word_freqs>>
            IN  Return(CacheStore(f.m, cache_key, value), value)
        Reduced(words, r) ==
            IF r.exc # NoException THEN r
            ELSE Store(words, r, get_word_frequencies(r.m))
        Loaded(e) ==
            IF e.exc # NoException THEN e
            ELSE IF Len(e.val[2]) = 0 THEN Return(e.m, <<EmptyArray, <<>>, <<>>>>)
            ELSE Reduced(e.val[2], Reduce(e.m, method, e.val[1], perplexity))
    IN  IF CacheHit(m, cache_key, use_cache) THEN Return(m, m.cache[cache_key])
        ELSE Loaded(get_all_embeddings(m, model_type, num_words))

\* the loop of lines 197-202 putting each kept word in front of the earlier ones
RECURSIVE CollectVectors_newest_first(_, _, _, _, _)
CollectVectors_newest_first(m, words, similarities, model_type, acc) ==
    LET Keep(v) ==
            CollectVectors_newest_first(
                v.m, Tail(words), Tail(similarities), model_type,
                IF v.val # None
                THEN <<<<The(v.val)>> \o acc[1], <<Head(words)>> \o acc[2],
                       <<Head(similarities)>> \o acc[3]>>
                ELSE acc)
    IN  IF words = <<>> THEN Return(m, acc)
        ELSE Keep(get_word_vector(m, Head(words), model_type))

\* the loop of lines 197-202: keep the words whose vector is retrieved
RECURSIVE CollectVectors(_, _, _, _, _)
CollectVectors(m, words, similarities, model_type, acc) ==
    LET Keep(v) ==
            CollectVectors(v.m, Tail(words), Tail(similarities), model_type,
                           IF v.val # None
                           THEN <<Append(acc[1], The(v.val)), Append(acc[2], Head(words)),
                                  Append(acc[3], Head(similarities))>>
                           ELSE acc)
    IN  IF words = <<>> THEN Return(m, acc)
        ELSE Keep(get_word_vector(m, Head(words), model_type))

\* line 204 testing for no vector at all
TooFewVectors_none(vectors) == Len(vectors) < 1

\* the test of line 204
TooFewVectors(vectors) == Len(vectors) < 2

\* lines 209-215 keeping what they computed in the cache, as lines 154-155 do
reduce_neighborhood_cached(m, vectors, method, perplexity) ==
    LET Kept(r) ==
            IF r.exc # NoException THEN r
            ELSE Return(CacheStore(r.m, _get_cache_key("neighborhood", method, Len(vectors),
                                                       perplexity),
                                   <<r.val, <<>>, <<>>>>),
                        r.val)
    IN  Kept(IF method = "pca" THEN reduce_pca(m, vectors)
             ELSE reduce_tsne(m, vectors,
                              Min(perplexity,
                                  Max(NEIGHBORHOOD_MIN_PERPLEXITY, Len(vectors) \div 3))))

\* lines 209-215: PCA as it is, t-SNE with the perplexity lowered for a small set
reduce_neighborhood(m, vectors, method, perplexity) ==
    IF method = "pca" THEN reduce_pca(m, vectors)
    ELSE reduce_tsne(m, vectors,
                     Min(perplexity, Max(NEIGHBORHOOD_MIN_PERPLEXITY, Len(vectors) \div 3)))

get_word_neighborhood(m, word, model_type, method, num_neighbors, perplexity) ==
    LET Shaped(c, r) ==
            IF r.exc # NoException THEN r
            ELSE Return(r.m, <<r.val, c.val[2], c.val[3]>>)
        Collected(c) ==
            LET vectors == c.val[1]
            IN  IF TooFewVectors(vectors) THEN Return(c.m, <<EmptyArray, <<>>, <<>>>>)
                ELSE Shaped(c, reduce_neighborhood(c.m, vectors, method, perplexity))
        Similar(s) ==
            LET similar_words == s.val[1]
                words == <<word>> \o [i \in 1..Len(similar_words) |-> similar_words[i][1]]
                similarities ==
                    <<SCALE>> \o [i \in 1..Len(similar_words) |-> similar_words[i][2]]
            IN  IF ~s.val[2] THEN Return(s.m, <<EmptyArray, <<>>, <<>>>>)
                ELSE Collected(CollectVectors(s.m, words, similarities, model_type,
                                              <<<<>>, <<>>, <<>>>>))
    IN  Similar(get_similar_words(m, word, model_type, num_neighbors))

clear_cache(m) == Return([m EXCEPT !.cache = EmptyDict], None)

----------------------------------------------------------------------------
(* backend/routers/similarity.py *)

HTTPException(m, status_code, detail) ==
    [m |-> m, exc |-> "HTTPException",
     val |-> [status_code |-> status_code, detail |-> detail]]

\* the status the client sees: an HTTPException carries its own, any other
\* exception leaving a handler is a 500
Status(r) ==
    IF r.exc = NoException THEN 200
    ELSE IF r.exc = "HTTPException" THEN r.val.status_code
    ELSE 500

\* "Maximum 20 words per batch"
MAX_BATCH_WORDS == 20

\* routers/models.py, GET /models/{model_type}/vocabulary
GET_models_vocabulary(m, model_type, sample_size) ==
    LET Respond(info, r) ==
            IF r.exc # NoException THEN r
            ELSE Return(r.m, [model_type |-> model_type,
                              vocab_size |-> info.val.vocab_size,
                              sample_words |-> r.val])
        WithInfo(info) ==
            IF info.exc # NoException THEN info
            ELSE Respond(info, get_vocabulary_sample(info.m, model_type, sample_size))
    IN  IF model_type \notin DOMAIN MODEL_TYPES
        THEN HTTPException(m, 404, "Model type not found")
        ELSE WithInfo(get_model_info(m, model_type))

\* GET /similarity/word/{word} without the test of lines 28-32
GET_similarity_word_any_model(m, word, model_type, topn) ==
    LET Respond(r) ==
            Return(r.m, [query_word |-> normalize(word),
                         model_type |-> model_type,
                         similar_words |-> SimilarDictsRounded(r.val[1]),
                         in_vocabulary |-> r.val[2],
                         message |-> r.val[3]])
    IN  Respond(get_similar_words(m, word, model_type, topn))

\* GET /similarity/word/{word}
GET_similarity_word(m, word, model_type, topn) ==
    LET Respond(r) ==
            Return(r.m, [query_word |-> normalize(word),
                         model_type |-> model_type,
                         similar_words |-> SimilarDictsRounded(r.val[1]),
                         in_vocabulary |-> r.val[2],
                         message |-> r.val[3]])
    IN  IF model_type \notin DOMAIN MODEL_TYPES
        THEN HTTPException(m, 400, "Invalid model type")
        ELSE Respond(get_similar_words(m, word, model_type, topn))

\* GET /similarity/compare/{word}
GET_similarity_compare(m, word, topn) ==
    LET r == compare_similarity(m, word, topn)
    IN  Return(r.m, [query_word |-> normalize(word), results |-> r.val])

BatchEntry(word, r) ==
    [query_word |-> normalize(word),
     similar_words |-> SimilarDictsRounded(r.val[1]),
     in_vocabulary |-> r.val[2],
     message |-> r.val[3]]

\* the loop of lines 96-106
RECURSIVE BatchLoop(_, _, _, _, _)
BatchLoop(m, words, model_type, topn, results) ==
    LET Step(r) ==
            IF r.exc # NoException THEN r      \* an exception leaves the loop
            ELSE BatchLoop(r.m, Tail(words), model_type, topn,
                           Append(results, BatchEntry(Head(words), r)))
    IN  IF words = <<>> THEN Return(m, results)
        ELSE Step(get_similar_words(m, Head(words), model_type, topn))

\* return {"model_type": model_type, "results": results}
BatchResponse(model_type, r) ==
    IF r.exc # NoException THEN r
    ELSE Return(r.m, [model_type |-> model_type, results |-> r.val])

\* POST /similarity/batch letting one word too many through
POST_similarity_batch_off_by_one(m, words, model_type, topn) ==
    IF model_type \notin DOMAIN MODEL_TYPES
    THEN HTTPException(m, 400, "Invalid model type")
    ELSE IF Len(words) > MAX_BATCH_WORDS + 1
    THEN HTTPException(m, 400, "Maximum 20 words per batch")
    ELSE BatchResponse(model_type, BatchLoop(m, words, model_type, topn, <<>>))

\* POST /similarity/batch
POST_similarity_batch(m, words, model_type, topn) ==
    IF model_type \notin DOMAIN MODEL_TYPES
    THEN HTTPException(m, 400, "Invalid model type")
    ELSE IF Len(words) > MAX_BATCH_WORDS
    THEN HTTPException(m, 400, "Maximum 20 words per batch")
    ELSE BatchResponse(model_type, BatchLoop(m, words, model_type, topn, <<>>))

----------------------------------------------------------------------------
(* backend/routers/embeddings.py *)

\* x=float(reduced[i, 0]), y=float(reduced[i, 1]): the coordinates of row i
EmbeddingPoint(reduced, i, word, frequency) ==
    [word |-> word, x |-> <<reduced.method, i, 0>>, y |-> <<reduced.method, i, 1>>,
     frequency |-> frequency]

\* "except Exception as e: raise HTTPException(status_code=500, ...)" around a
\* try body: every exception the body raised, an HTTPException included,
\* leaves as a 500 that carries its text
ExceptException(body, prefix) ==
    IF body.exc = NoException THEN body
    ELSE IF body.exc = "HTTPException"
    THEN HTTPException(body.m, 500,
                       prefix \o ToString(body.val.status_code) \o ": " \o body.val.detail)
    ELSE HTTPException(body.m, 500, prefix \o body.exc)

\* GET /embeddings/{model_type} without the test of lines 59-63: the method is
\* looked at only by get_reduced_embeddings
GET_embeddings_any_method(m, model_type, method, num_words, perplexity) ==
    LET Body(r) ==
            IF r.exc # NoException THEN r
            ELSE IF Len(r.val[2]) = 0
            THEN HTTPException(r.m, 500, "Failed to load embeddings")
            ELSE Return(r.m,
                        [model_type |-> model_type,
                         reduction_method |-> method,
                         num_words |-> Len(r.val[2]),
                         points |-> [i \in 1..Len(r.val[2]) |->
                                        EmbeddingPoint(r.val[1], i, r.val[2][i], r.val[3][i])]])
    IN  IF model_type \notin DOMAIN MODEL_TYPES
        THEN HTTPException(m, 400, "Invalid model type")
        ELSE ExceptException(
                 Body(get_reduced_embeddings(m, model_type, method, num_words, perplexity,
                                             TRUE)),
                 "Error generating embeddings: ")

\* GET /embeddings/{model_type} asking the service to leave its cache aside
GET_embeddings_uncached(m, model_type, method, num_words, perplexity) ==
    LET Body(r) ==
            IF r.exc # NoException THEN r
            ELSE IF Len(r.val[2]) = 0
            THEN HTTPException(r.m, 500, "Failed to load embeddings")
            ELSE Return(r.m,
                        [model_type |-> model_type,
                         reduction_method |-> method,
                         num_words |-> Len(r.val[2]),
                         points |-> [i \in 1..Len(r.val[2]) |->
                                        EmbeddingPoint(r.val[1], i, r.val[2][i], r.val[3][i])]])
    IN  IF model_type \notin DOMAIN MODEL_TYPES
        THEN HTTPException(m, 400, "Invalid model type")
        ELSE IF method \notin {"pca", "tsne"}
        THEN HTTPException(m, 400, "Method must be 'pca' or 'tsne'")
        ELSE ExceptException(
                 Body(get_reduced_embeddings(m, model_type, method, num_words, perplexity,
                                             FALSE)),
                 "Error generating embeddings: ")

\* GET /embeddings/{model_type}
GET_embeddings(m, model_type, method, num_words, perplexity) ==
    LET Body(r) ==
            IF r.exc # NoException THEN r
            ELSE IF Len(r.val[2]) = 0
            THEN HTTPException(r.m, 500, "Failed to load embeddings")
            ELSE Return(r.m,
                        [model_type |-> model_type,
                         reduction_method |-> method,
                         num_words |-> Len(r.val[2]),
                         points |-> [i \in 1..Len(r.val[2]) |->
                                        EmbeddingPoint(r.val[1], i, r.val[2][i], r.val[3][i])]])
    IN  IF model_type \notin DOMAIN MODEL_TYPES
        THEN HTTPException(m, 400, "Invalid model type")
        ELSE IF method \notin {"pca", "tsne"}
        THEN HTTPException(m, 400, "Method must be 'pca' or 'tsne'")
        ELSE ExceptException(
                 Body(get_reduced_embeddings(m, model_type, method, num_words, perplexity,
                                             TRUE)),
                 "Error generating embeddings: ")

\* GET /embeddings/{model_type}/neighborhood/{word}
GET_embeddings_neighborhood(m, model_type, word, method, num_neighbors, perplexity) ==
    LET Body(r) ==
            IF r.exc # NoException THEN r
            ELSE IF Len(r.val[2]) = 0
            THEN HTTPException(r.m, 404, "Word not found in vocabulary")
            ELSE Return(r.m,
                        [query_word |-> normalize(word),
                         model_type |-> model_type,
                         reduction_method |-> method,
                         points |-> [i \in 1..Len(r.val[2]) |->
                                        [word |-> r.val[2][i],
                                         x |-> <<r.val[1].method, i, 0>>,
                                         y |-> <<r.val[1].method, i, 1>>,
                                         similarity |-> round4(r.val[3][i]),
                                         is_query |-> r.val[2][i] = normalize(word)]]])
    IN  IF model_type \notin DOMAIN MODEL_TYPES
        THEN HTTPException(m, 400, "Invalid model type")
        ELSE ExceptException(
                 Body(get_word_neighborhood(m, word, model_type, method, num_neighbors,
                                            perplexity)),
                 "Error generating neighborhood: ")

\* DELETE /embeddings/cache
DELETE_embeddings_cache(m) ==
    LET r == clear_cache(m) IN Return(r.m, [message |-> "Cache cleared successfully"])

----------------------------------------------------------------------------
(* The state machine: one action per operation *)

\* the machine an operation starts from
Machine ==
    [loader |-> loader, cache |-> _cache, reads |-> {}, lookups |-> <<>>, proj |-> <<>>,
     perplexities |-> <<>>]

\* the machine the last operation started from
MachineBefore ==
    [loader |-> before.loader, cache |-> before.cache, reads |-> {}, lookups |-> <<>>,
     proj |-> <<>>, perplexities |-> <<>>]

\* the operation runs once, from Machine, and its outcome becomes the state
Finish(c, outcome) ==
    \E r \in {outcome} :
        /\ call' = c
        /\ before' = [loader |-> loader, cache |-> _cache]
        /\ result' = [exc |-> r.exc, val |-> r.val]
        /\ loader' = r.m.loader
        /\ _cache' = r.m.cache
        /\ reads' = r.m.reads
        /\ lookups' = r.m.lookups
        /\ proj' = r.m.proj
        /\ perplexities' = r.m.perplexities
        /\ UNCHANGED <<exists, argsort_ties, tsne_fails, requests>>

Selectors == {"tfidf", "word2vec_cbow", "word2vec_skipgram"}
ModelTypeInputs == Selectors \cup {"glove"}

Construct ==
    Finish([op |-> "ModelLoader"], Return(ModelLoader_init(Machine), None))

Accessor(name) ==
    CASE name = "get_tfidf_embeddings" -> get_tfidf_embeddings(Machine)
      [] name = "get_tfidf_vocab" -> get_tfidf_vocab(Machine)
      [] name = "get_tfidf_idx_to_word" -> get_tfidf_idx_to_word(Machine)
      [] name = "get_word2vec_cbow" -> get_word2vec_cbow(Machine)
      [] name = "get_word2vec_skipgram" -> get_word2vec_skipgram(Machine)
      [] name = "get_word_frequencies" -> get_word_frequencies(Machine)

AccessorNames ==
    {"get_tfidf_embeddings", "get_tfidf_vocab", "get_tfidf_idx_to_word",
     "get_word2vec_cbow", "get_word2vec_skipgram", "get_word_frequencies"}

CallAccessor ==
    \E name \in AccessorNames : Finish([op |-> name], Accessor(name))

CallGetModelInfo ==
    \E model_type \in ModelTypeInputs :
        Finish([op |-> "get_model_info", model_type |-> model_type],
               get_model_info(Machine, model_type))

(* the inputs *)

MaxTopN == 3
MaxQueryTopN == 1

\* spellings: in every vocabulary but skipgram's, the same word upper-cased
\* and padded, a word of the TF-IDF and skipgram vocabularies only, and a word
\* of no vocabulary
WordInputs == {<<"a">>, <<"A", " ">>, <<"c">>, <<"z">>}

TopNInputs == 0..MaxTopN

\* what Query(ge=1, ...) lets through to a handler
TopNQueryInputs == 1..MaxQueryTopN

\* a batch of n words that cycles through four spellings
LongBatch(n) ==
    [i \in 1..n |-> CASE i % 4 = 0 -> <<"z">>
                      [] i % 4 = 1 -> <<"a">>
                      [] i % 4 = 2 -> <<"c">>
                      [] OTHER -> <<"A", " ">>]

BatchInputs ==
    {<<>>, <<<<"a">>>>, <<<<"z">>, <<"A", " ">>>>, <<<<"c">>, <<"z">>, <<"a">>>>}
        \cup {LongBatch(n) : n \in MAX_BATCH_WORDS..(MAX_BATCH_WORDS + 1)}

CallGetSimilarWords ==
    \E word \in WordInputs, model_type \in Selectors, topn \in TopNInputs :
        Finish([op |-> "get_similar_words", word |-> word, model_type |-> model_type,
                topn |-> topn],
               get_similar_words(Machine, word, model_type, topn))

CallIsWordInVocab ==
    \E word \in WordInputs, model_type \in ModelTypeInputs :
        Finish([op |-> "is_word_in_vocab", word |-> word, model_type |-> model_type],
               is_word_in_vocab(Machine, word, model_type))

CallGetWordVector ==
    \E word \in WordInputs, model_type \in ModelTypeInputs :
        Finish([op |-> "get_word_vector", word |-> word, model_type |-> model_type],
               get_word_vector(Machine, word, model_type))

\* sample_size is any integer: the handler declares no bounds for it
RequestVocabulary ==
    \E model_type \in ModelTypeInputs, sample_size \in {-1, 0, 2, 50} :
        Finish([op |-> "GET /models/vocabulary", model_type |-> model_type,
                sample_size |-> sample_size],
               GET_models_vocabulary(Machine, model_type, sample_size))

CallCompareSimilarity ==
    \E word \in WordInputs, topn \in TopNInputs :
        Finish([op |-> "compare_similarity", word |-> word, topn |-> topn],
               compare_similarity(Machine, word, topn))

RequestSimilarityWord ==
    \E word \in WordInputs, model_type \in ModelTypeInputs, topn \in TopNQueryInputs :
        Finish([op |-> "GET /similarity/word", word |-> word, model_type |-> model_type,
                topn |-> topn],
               GET_similarity_word(Machine, word, model_type, topn))

RequestSimilarityCompare ==
    \E word \in WordInputs, topn \in TopNQueryInputs :
        Finish([op |-> "GET /similarity/compare", word |-> word, topn |-> topn],
               GET_similarity_compare(Machine, word, topn))

RequestSimilarityBatch ==
    \E words \in BatchInputs, model_type \in ModelTypeInputs, topn \in TopNQueryInputs :
        Finish([op |-> "POST /similarity/batch", words |-> words,
                model_type |-> model_type, topn |-> topn],
               POST_similarity_batch(Machine, words, model_type, topn))

MethodInputs == {"pca", "tsne"}

\* fewer words than the TF-IDF vocabulary has, and more
NumWordsInputs == {2, 50}

PerplexityInputs == {DEFAULT_PERPLEXITY}

\* the models get_reduced_embeddings is called for: four words, one word (no
\* projection of a single row exists), and no model at all
ReductionModelInputs == {"tfidf", "word2vec_skipgram", "glove"}

CallGetReducedEmbeddings ==
    \E model_type \in ReductionModelInputs, method \in MethodInputs,
       num_words \in NumWordsInputs, perplexity \in PerplexityInputs,
       use_cache \in BOOLEAN :
        Finish([op |-> "get_reduced_embeddings", model_type |-> model_type,
                method |-> method, num_words |-> num_words, perplexity |-> perplexity,
                use_cache |-> use_cache],
               get_reduced_embeddings(Machine, model_type, method, num_words, perplexity,
                                      use_cache))

\* word counts below, at and above the vocabulary sizes (4, 3 and 1 words)
WordCountInputs == {0, 2, 3, 50}

CallGetAllEmbeddings ==
    \E model_type \in ModelTypeInputs, num_words \in WordCountInputs :
        Finish([op |-> "get_all_embeddings", model_type |-> model_type,
                num_words |-> num_words],
               get_all_embeddings(Machine, model_type, num_words))

CallClearCache ==
    Finish([op |-> "clear_cache"], clear_cache(Machine))

\* fewer neighbours than any vocabulary has, and the least the handler's
\* Query(ge=5) lets through
NumNeighborsInputs == {1, 5}

\* the spellings of the neighborhood runs: a word of every vocabulary but
\* skipgram's, upper-cased and padded; the only word of the skipgram model; a
\* word of no vocabulary
NeighborhoodWordInputs == {<<"A", " ">>, <<"c">>, <<"z">>}

CallGetWordNeighborhood ==
    \E word \in NeighborhoodWordInputs, model_type \in Selectors, method \in MethodInputs,
       num_neighbors \in NumNeighborsInputs :
        Finish([op |-> "get_word_neighborhood", word |-> word, model_type |-> model_type,
                method |-> method, num_neighbors |-> num_neighbors,
                perplexity |-> DEFAULT_PERPLEXITY],
               get_word_neighborhood(Machine, word, model_type, method, num_neighbors,
                                     DEFAULT_PERPLEXITY))

\* what reaches a handler as method: the two names of a projection and one
\* that is neither
MethodQueryInputs == MethodInputs \cup {"umap"}

RequestNeighborhood ==
    \E word \in NeighborhoodWordInputs, model_type \in ModelTypeInputs,
       method \in MethodQueryInputs :
        Finish([op |-> "GET /embeddings/neighborhood", word |-> word,
                model_type |-> model_type, method |-> method, num_neighbors |-> 5,
                perplexity |-> DEFAULT_PERPLEXITY],
               GET_embeddings_neighborhood(Machine, model_type, word, method, 5,
                                           DEFAULT_PERPLEXITY))

\* the least Query(ge=50) lets through
NumWordsQueryInputs == {50}

RequestEmbeddings ==
    \E model_type \in ModelTypeInputs, method \in MethodQueryInputs,
       num_words \in NumWordsQueryInputs, perplexity \in PerplexityInputs :
        Finish([op |-> "GET /embeddings", model_type |-> model_type, method |-> method,
                num_words |-> num_words, perplexity |-> perplexity],
               GET_embeddings(Machine, model_type, method, num_words, perplexity))

RequestClearCache ==
    Finish([op |-> "DELETE /embeddings/cache"], DELETE_embeddings_cache(Machine))

(* the event loop: requests are received while others wait; a handler is a *)
(* coroutine without an await, so it runs from its first line to its last   *)
(* before the loop takes up the next request                                *)

\* the requests in flight at once
MaxRequests == 2

\* the query tuples of the simultaneous requests: two values of each
\* component, within Query(ge=50) and Query(ge=5)
RequestInputs ==
    [model_type : {"tfidf", "word2vec_cbow"}, method : MethodInputs,
     num_words : {50, 51}, perplexity : {TSNE_MIN_PERPLEXITY, DEFAULT_PERPLEXITY}]

\* a request is received and waits for the loop
Arrive ==
    /\ Len(requests) < MaxRequests
    /\ \E q \in RequestInputs :
           requests' = Append(requests, [args |-> q, state |-> "pending", with |-> {},
                                         cached |-> FALSE, response |-> result,
                                         proj |-> <<>>])
    /\ UNCHANGED <<exists, argsort_ties, tsne_fails, loader, _cache, before, call, result,
                   reads, lookups, proj, perplexities>>

\* the loop runs the handler of one waiting request to its end
Serve ==
    \E i \in DOMAIN requests :
        /\ requests[i].state = "pending"
        /\ \E r \in {GET_embeddings(Machine, requests[i].args.model_type,
                                      requests[i].args.method, requests[i].args.num_words,
                                      requests[i].args.perplexity)} :
               /\ call' = [op |-> "GET /embeddings", model_type |-> requests[i].args.model_type,
                           method |-> requests[i].args.method,
                           num_words |-> requests[i].args.num_words,
                           perplexity |-> requests[i].args.perplexity]
               /\ before' = [loader |-> loader, cache |-> _cache]
               /\ result' = [exc |-> r.exc, val |-> r.val]
               /\ loader' = r.m.loader
               /\ _cache' = r.m.cache
               /\ reads' = r.m.reads
               /\ lookups' = r.m.lookups
               /\ proj' = r.m.proj
               /\ perplexities' = r.m.perplexities
               /\ requests' =
                      [requests EXCEPT
                          ![i] = [args |-> @.args, state |-> "served",
                                  with |-> {j \in DOMAIN requests :
                                               j # i /\ requests[j].state = "pending"},
                                  cached |-> _get_cache_key(@.args.model_type, @.args.method,
                                                            @.args.num_words,
                                                            @.args.perplexity)
                                             \in DOMAIN _cache,
                                  response |-> [exc |-> r.exc, val |-> r.val],
                                  proj |-> r.m.proj]]
        /\ UNCHANGED <<exists, argsort_ties, tsne_fails>>

(* the projections applied to an array of n rows *)

MaxSamples == 21

\* an array of n rows of two features
SampleRows(n) == [i \in 1..n |-> <<i, 1>>]

SampleInputs == 0..MaxSamples

\* below both floors, the two floors, just above, the default
ClampPerplexityInputs == {1, NEIGHBORHOOD_MIN_PERPLEXITY, TSNE_MIN_PERPLEXITY, 6, DEFAULT_PERPLEXITY}

CallReduceTsne ==
    \E n \in SampleInputs, perplexity \in ClampPerplexityInputs :
        Finish([op |-> "reduce_tsne", n_samples |-> n, perplexity |-> perplexity],
               reduce_tsne(Machine, SampleRows(n), perplexity))

CallReduceNeighborhood ==
    \E n \in SampleInputs, method \in MethodInputs, perplexity \in ClampPerplexityInputs :
        Finish([op |-> "reduce_neighborhood", n_samples |-> n, method |-> method,
                perplexity |-> perplexity],
               reduce_neighborhood(Machine, SampleRows(n), method, perplexity))

Init ==
    /\ exists \in SUBSET MODEL_PATHS
    /\ argsort_ties \in {"ascending", "descending"}
    /\ tsne_fails \in {"never", "checks_perplexity", "rejects_n_iter"}
    /\ loader = NewLoader
    /\ _cache = EmptyDict
    /\ before = [loader |-> NewLoader, cache |-> EmptyDict]
    /\ call = [op |-> "import"]
    /\ result = [exc |-> NoException, val |-> None]
    /\ reads = {}
    /\ lookups = <<>>
    /\ proj = <<>>
    /\ perplexities = <<>>
    /\ requests = <<>>

NextStore == Construct \/ CallAccessor \/ CallGetModelInfo

\* the model store alone; the sort and the t-SNE build play no part in it
InitStore == Init /\ argsort_ties = "ascending" /\ tsne_fails = "never"

SpecStore == InitStore /\ [][NextStore]_vars

NextSim == CallGetSimilarWords \/ CallCompareSimilarity

\* the similarity engine; t-SNE and the frequency table play no part in it
InitSim == Init /\ tsne_fails = "never" /\ "word_frequencies" \in exists

SpecSim == InitSim /\ [][NextSim]_vars

NextRed == CallGetReducedEmbeddings \/ CallClearCache

\* the disks the reduction engine is run on: every file there, the frequency
\* table missing, the TF-IDF vocabulary missing, the models missing
DisksRed ==
    {MODEL_PATHS, MODEL_PATHS \ {"word_frequencies"}, MODEL_PATHS \ {"tfidf_vocab"},
     {"word_frequencies"}}

\* the reduction engine and its cache
InitRed == Init /\ argsort_ties = "ascending" /\ exists \in DisksRed

SpecRed == InitRed /\ [][NextRed]_vars

NextNbr == CallGetWordNeighborhood \/ RequestNeighborhood

\* the disks the neighborhood path is run on: every file there, and every
\* model missing
DisksNbr == {MODEL_PATHS, {"word_frequencies"}}

\* the neighborhood path of the reduction engine and its handler
InitNbr == Init /\ argsort_ties = "ascending" /\ exists \in DisksNbr

SpecNbr == InitNbr /\ [][NextNbr]_vars

NextEmb == CallGetAllEmbeddings \/ CallGetReducedEmbeddings \/ CallClearCache

\* the word selection and the reduction built on it
InitEmb == InitRed /\ tsne_fails # "rejects_n_iter"

SpecEmb == InitEmb /\ [][NextEmb]_vars

NextRedApi == RequestEmbeddings \/ RequestClearCache

\* the handlers of /embeddings in front of the cached reduction
InitRedApi == InitRed

SpecRedApi == InitRedApi /\ [][NextRedApi]_vars

\* get_reduced_embeddings for the TF-IDF model with the least word count the
\* handler asks for and use_cache at its default: the calls that put entries
\* in the cache
CallGetReducedEmbeddingsTfidf ==
    \E method \in MethodInputs, num_words \in NumWordsQueryInputs :
        Finish([op |-> "get_reduced_embeddings", model_type |-> "tfidf", method |-> method,
                num_words |-> num_words, perplexity |-> DEFAULT_PERPLEXITY,
                use_cache |-> TRUE],
               get_reduced_embeddings(Machine, "tfidf", method, num_words,
                                      DEFAULT_PERPLEXITY, TRUE))

NextNbrCache == CallGetReducedEmbeddingsTfidf \/ CallGetWordNeighborhood \/ CallClearCache

\* the neighborhood path beside a cache that get_reduced_embeddings fills
InitNbrCache ==
    Init /\ argsort_ties = "ascending" /\ tsne_fails = "never" /\ exists = MODEL_PATHS

SpecNbrCache == InitNbrCache /\ [][NextNbrCache]_vars

NextLoop == Arrive \/ Serve

\* simultaneous GET /embeddings requests on one event loop, with every file on
\* disk and with the CBOW model missing
InitLoop ==
    /\ Init
    /\ argsort_ties = "ascending"
    /\ exists \in {MODEL_PATHS, MODEL_PATHS \ {"word2vec_cbow"}}
    /\ tsne_fails = "never"

SpecLoop == InitLoop /\ [][NextLoop]_vars

NextWords ==
    CallIsWordInVocab \/ CallGetWordVector \/ CallGetSimilarWords \/ RequestVocabulary

\* the operations that take a word and the vocabulary sample, on the disks of
\* the reduction runs
InitWords ==
    Init /\ argsort_ties = "ascending" /\ tsne_fails = "never" /\ exists \in DisksRed

SpecWords == InitWords /\ [][NextWords]_vars

NextClamp == CallReduceTsne \/ CallReduceNeighborhood

\* the two projections on arrays of every size; no file plays a part
InitClamp == Init /\ argsort_ties = "ascending" /\ exists = MODEL_PATHS

SpecClamp == InitClamp /\ [][NextClamp]_vars

NextSimApi == RequestSimilarityWord \/ RequestSimilarityCompare \/ RequestSimilarityBatch

\* the handlers of /similarity
InitSimApi == InitSim /\ argsort_ties = "ascending"

SpecSimApi == InitSimApi /\ [][NextSimApi]_vars

----------------------------------------------------------------------------
(* The claims *)

\* the store holds model_type's vocabulary and the normalized word is in it
InVocabulary(model_type, raw) ==
    IF model_type = "tfidf"
    THEN /\ loader._tfidf_vocab # None
         /\ normalize(raw) \in DOMAIN The(loader._tfidf_vocab)
    ELSE /\ model_type \in DOMAIN loader._models
         /\ normalize(raw) \in DOMAIN loader._models[model_type].key_to_index

NonIncreasing(similar) ==
    \A i \in 1..(Len(similar) - 1) : similar[i][2] >= similar[i + 1][2]

\* C1: for a word of the TF-IDF vocabulary and top_n >= 0, the TF-IDF lookup
\* returns at most top_n pairs, none of them the query word's own row, with
\* scores in non-increasing order, and found_in_vocabulary = true.
C1_TfidfNearest ==
    (/\ call.op = "get_similar_words"
     /\ call.model_type = "tfidf"
     /\ InVocabulary("tfidf", call.word))
    => /\ result.exc = NoException
       /\ Len(result.val[1]) <= call.topn
       /\ \A i \in DOMAIN result.val[1] :
              The(loader._tfidf_vocab)[result.val[1][i][1]]
                  # The(loader._tfidf_vocab)[normalize(call.word)]
       /\ NonIncreasing(result.val[1])
       /\ result.val[2] = TRUE

\* a padded, upper-case spelling of a vocabulary word whose three neighbours
\* were all returned, two of them with equal scores
C1_Witness ==
    /\ call.op = "get_similar_words"
    /\ call.model_type = "tfidf"
    /\ call.word = <<"A", " ">>
    /\ InVocabulary("tfidf", call.word)
    /\ call.topn = 3
    /\ Len(result.val[1]) = 3
    /\ result.val[1][1][2] > result.val[1][2][2]
    /\ result.val[1][2][2] = result.val[1][3][2]

\* C2: for a word absent from a model's vocabulary, get_similar_words returns
\* an empty list, found_in_vocabulary = false and a non-empty message, for each
\* selector whatever the state of the other two models, and does not raise.
C2_AbsentWord ==
    (/\ call.op = "get_similar_words"
     /\ call.model_type \in Selectors
     /\ ~InVocabulary(call.model_type, call.word))
    => /\ result.exc = NoException
       /\ result.val[1] = <<>>
       /\ result.val[2] = FALSE
       /\ result.val[3] # None
       /\ The(result.val[3]).text # ""

\* a word of the TF-IDF vocabulary, which is loaded, that the loaded CBOW model
\* does not have
C2_Witness ==
    /\ call.op = "get_similar_words"
    /\ call.model_type = "word2vec_cbow"
    /\ "word2vec_cbow" \in DOMAIN loader._models
    /\ InVocabulary("tfidf", call.word)
    /\ ~InVocabulary("word2vec_cbow", call.word)
    /\ result.val[2] = FALSE

\* the cache key of a get_reduced_embeddings call
KeyOf(c) == _get_cache_key(c.model_type, c.method, c.num_words, c.perplexity)

\* C3: a get_reduced_embeddings call that computes a result stores it under
\* its tuple's key, and a call that finds its tuple's key in the cache returns
\* the stored result and runs no projection (and reads no file).
C3_SecondCallCached ==
    call.op = "get_reduced_embeddings"
    => /\ (result.exc = NoException /\ result.val[2] # <<>>)
          => (KeyOf(call) \in DOMAIN _cache /\ _cache[KeyOf(call)] = result.val)
       /\ (call.use_cache /\ KeyOf(call) \in DOMAIN before.cache)
          => /\ result.exc = NoException
             /\ result.val = before.cache[KeyOf(call)]
             /\ proj = <<>>
             /\ reads = {}

\* a t-SNE request answered from the cache
C3_Witness ==
    /\ call.op = "get_reduced_embeddings"
    /\ call.method = "tsne"
    /\ call.use_cache
    /\ KeyOf(call) \in DOMAIN before.cache
    /\ result.val = before.cache[KeyOf(call)]
    /\ Len(result.val[2]) >= 2
    /\ proj = <<>>

\* C4: every operation but clear_cache leaves each cache entry in place with
\* the value it had, and clear_cache leaves the cache empty.
C4_CachePersists ==
    /\ call.op # "clear_cache"
       => \A k \in DOMAIN before.cache : k \in DOMAIN _cache /\ _cache[k] = before.cache[k]
    /\ call.op = "clear_cache" => _cache = EmptyDict

\* a second tuple was stored next to the first, and one stored entry was
\* recomputed in place
C4_Witness ==
    /\ call.op = "get_reduced_embeddings"
    /\ before.cache # EmptyDict
    /\ KeyOf(call) \notin DOMAIN before.cache
    /\ DOMAIN _cache = DOMAIN before.cache \cup {KeyOf(call)}
    /\ proj # <<>>

\* C5: the batch handler answers 400 to more than 20 words and looks none of
\* them up; for at most 20 words and a valid model_type it returns one result
\* per input word, in input order, each with the flag and the neighbours that
\* word gets when it is looked up alone.
C5_Batch ==
    call.op = "POST /similarity/batch"
    => /\ Len(call.words) > MAX_BATCH_WORDS
          => (Status(result) = 400 /\ lookups = <<>> /\ reads = {})
       /\ (Len(call.words) <= MAX_BATCH_WORDS /\ call.model_type \in Selectors)
          => /\ result.exc = NoException
             /\ lookups = call.words
             /\ Len(result.val.results) = Len(call.words)
             /\ \A i \in DOMAIN call.words :
                    LET alone == get_similar_words(Machine, call.words[i],
                                                   call.model_type, call.topn)
                        entry == result.val.results[i]
                    IN  /\ entry.query_word = normalize(call.words[i])
                        /\ entry.in_vocabulary = InVocabulary(call.model_type, call.words[i])
                        /\ entry.in_vocabulary = alone.val[2]
                        /\ entry.similar_words = SimilarDictsRounded(alone.val[1])

\* exactly 20 words, some found and some not
C5_Witness ==
    /\ call.op = "POST /similarity/batch"
    /\ Len(call.words) = MAX_BATCH_WORDS
    /\ result.exc = NoException
    /\ Len(result.val.results) = MAX_BATCH_WORDS
    /\ \E i, j \in DOMAIN result.val.results :
           /\ i < j
           /\ ~result.val.results[i].in_vocabulary
           /\ result.val.results[j].in_vocabulary
           /\ result.val.results[j].similar_words # <<>>

\* C6: compare_similarity returns exactly the keys tfidf, word2vec_cbow and
\* word2vec_skipgram for every word, each value being what get_similar_words
\* returns for that model alone from the state the call started in.
C6_CompareThreeKeys ==
    call.op = "compare_similarity"
    => /\ result.exc = NoException
       /\ DOMAIN result.val = Selectors
       /\ \A model_type \in Selectors :
              result.val[model_type]
                  = CompareEntry(get_similar_words(MachineBefore, call.word, model_type,
                                                   call.topn))

\* a word that none of the three loaded models has
C6_Witness ==
    /\ call.op = "compare_similarity"
    /\ loader._tfidf_vocab # None
    /\ DOMAIN loader._models = Word2VecTypes
    /\ DOMAIN result.val = Selectors
    /\ \A model_type \in Selectors :
           /\ ~InVocabulary(model_type, call.word)
           /\ ~result.val[model_type].in_vocabulary

\* how many of the query word and its neighbours have a vector, in the state
\* the call left
RetrievableVectors(c) ==
    LET similar == get_similar_words(Machine, c.word, c.model_type, c.num_neighbors).val[1]
        words == <<c.word>> \o [i \in 1..Len(similar) |-> similar[i][1]]
    IN  Cardinality({i \in DOMAIN words :
                        get_word_vector(Machine, words[i], c.model_type).val # None})

\* C7: get_word_neighborhood returns empty coordinates, words and similarities
\* when the query word is absent from the vocabulary or fewer than 2 of the
\* words have a vector, and runs no projection then.
C7_NeighborhoodEmpty ==
    (/\ call.op = "get_word_neighborhood"
     /\ \/ ~InVocabulary(call.model_type, call.word)
        \/ RetrievableVectors(call) < 2)
    => /\ result.exc = NoException
       /\ result.val = <<EmptyArray, <<>>, <<>>>>
       /\ proj = <<>>

\* the only word of a one-word model: it is in the vocabulary and has no
\* neighbour
C7_Witness ==
    /\ call.op = "get_word_neighborhood"
    /\ InVocabulary(call.model_type, call.word)
    /\ RetrievableVectors(call) = 1
    /\ result.val = <<EmptyArray, <<>>, <<>>>>
    /\ proj = <<>>

\* C8: the neighborhood endpoint answers 404 when the query word is not in the
\* selected model's vocabulary.
C8_NeighborhoodNotFound404 ==
    (/\ call.op = "GET /embeddings/neighborhood"
     /\ call.model_type \in Selectors
     /\ ~InVocabulary(call.model_type, call.word))
    => Status(result) = 404

\* a word that the loaded TF-IDF vocabulary does not have: the 404 raised in
\* the try body was caught by "except Exception" and left as a 500
C8_Witness ==
    /\ call.op = "GET /embeddings/neighborhood"
    /\ call.model_type = "tfidf"
    /\ loader._tfidf_vocab # None
    /\ ~InVocabulary("tfidf", call.word)
    /\ result.exc = "HTTPException"
    /\ result.val.status_code = 500

ExpectedFiles(model_type) ==
    IF model_type = "tfidf" THEN {"tfidf_word_embeddings", "tfidf_vocab"} ELSE {model_type}

\* C9: whenever an expected model file is absent, get_model_info returns
\* is_loaded = false with vocab_size 0 and vector_dimensions 0 and does not
\* raise, on every call of any sequence.
C9_ModelInfoMissingFile ==
    (/\ call.op = "get_model_info"
     /\ call.model_type \in Selectors
     /\ ~(ExpectedFiles(call.model_type) \subseteq exists))
    => /\ result.exc = NoException
       /\ result.val.is_loaded = FALSE
       /\ result.val.vocab_size = 0
       /\ result.val.vector_dimensions = 0

\* the files an operation of the store may read: those of its own model
FilesFor(c) ==
    CASE c.op \in {"get_tfidf_embeddings", "get_tfidf_vocab", "get_tfidf_idx_to_word"}
             -> ExpectedFiles("tfidf")
      [] c.op = "get_word2vec_cbow" -> {"word2vec_cbow"}
      [] c.op = "get_word2vec_skipgram" -> {"word2vec_skipgram"}
      [] c.op = "get_word_frequencies" -> {"word_frequencies"}
      [] c.op = "get_model_info" -> ExpectedFiles(c.model_type)
      [] OTHER -> {}

TfidfLoadedBefore ==
    before.loader._tfidf_embeddings # None /\ before.loader._tfidf_vocab # None

\* C10: nothing is loaded before the first accessor call for its model, a call
\* reads only its own model's files, and once a model is loaded every later
\* call keeps the same artifact in memory, returns it from the accessor and
\* reads its file no more.
C10_LazyMemoized ==
    /\ call.op = "import" => (loader = NewLoader /\ reads = {})
    /\ reads \subseteq FilesFor(call)
    /\ TfidfLoadedBefore
       => /\ loader._tfidf_embeddings = before.loader._tfidf_embeddings
          /\ loader._tfidf_vocab = before.loader._tfidf_vocab
          /\ loader._tfidf_idx_to_word = before.loader._tfidf_idx_to_word
          /\ reads \cap ExpectedFiles("tfidf") = {}
          /\ call.op = "get_tfidf_embeddings"
             => result.val = before.loader._tfidf_embeddings
          /\ call.op = "get_tfidf_vocab" => result.val = before.loader._tfidf_vocab
          /\ call.op = "get_tfidf_idx_to_word"
             => result.val = before.loader._tfidf_idx_to_word
    /\ \A model_type \in DOMAIN before.loader._models :
          /\ model_type \in DOMAIN loader._models
          /\ loader._models[model_type] = before.loader._models[model_type]
          /\ model_type \notin reads
          /\ call.op = "get_" \o model_type
             => result.val = before.loader._models[model_type]
    /\ before.loader._word_frequencies # None
       => /\ loader._word_frequencies = before.loader._word_frequencies
          /\ "word_frequencies" \notin reads
          /\ call.op = "get_word_frequencies"
             => result.val = The(before.loader._word_frequencies)

\* an accessor call that found its model in memory: it returned it without a read
C10_Witness ==
    /\ call.op = "get_word2vec_cbow"
    /\ "word2vec_cbow" \in DOMAIN before.loader._models
    /\ result.exc = NoException
    /\ result.val = word2vec_cbow_model
    /\ reads = {}

\* C11: reduce_tsne builds TSNE once, with the perplexity
\* min(requested, max(5, (n_samples - 1) div 3)), and an array that t-SNE
\* produced carries that perplexity; 30 requested on 10 samples gives 5.
C11_TsnePerplexity ==
    call.op = "reduce_tsne"
    => LET clamped == Min(call.perplexity, Max(5, (call.n_samples - 1) \div 3))
       IN  /\ perplexities = <<clamped>>
           /\ (result.exc = NoException /\ result.val.method = "tsne")
              => result.val.perplexity = clamped
           /\ (call.n_samples = 10 /\ call.perplexity = 30) => perplexities[1] <= 5

\* 30 requested on 10 samples: t-SNE ran with 5
C11_Witness ==
    /\ call.op = "reduce_tsne"
    /\ call.n_samples = 10
    /\ call.perplexity = 30
    /\ perplexities = <<5>>
    /\ result.exc = NoException
    /\ result.val.method = "tsne"
    /\ result.val.perplexity = 5

\* C12: GET /embeddings/{model_type} answers 400 to a model_type that is not a
\* selector and to a method that is neither pca nor tsne, and then no model is
\* loaded, no file read, no projection run and the cache left as it was.
C12_EmbeddingsRejects ==
    (/\ call.op = "GET /embeddings"
     /\ \/ call.model_type \notin Selectors
        \/ call.method \notin {"pca", "tsne"})
    => /\ Status(result) = 400
       /\ loader = before.loader
       /\ reads = {}
       /\ lookups = <<>>
       /\ proj = <<>>
       /\ perplexities = <<>>
       /\ _cache = before.cache

\* an unknown method for a model whose files are there, with entries in the cache
C12_Witness ==
    /\ call.op = "GET /embeddings"
    /\ call.model_type = "tfidf"
    /\ call.method = "umap"
    /\ ExpectedFiles("tfidf") \subseteq exists
    /\ Status(result) = 400
    /\ _cache # EmptyDict
    /\ loader._tfidf_embeddings # None

\* C13: GET /similarity/word/{word} answers 400 to a model_type that is not a
\* selector; for a selector and a word that is not in the model's vocabulary it
\* answers 200 with in_vocabulary = false, no similar words and a message.
C13_SimilarityWordStatus ==
    call.op = "GET /similarity/word"
    => /\ call.model_type \notin Selectors
          => (Status(result) = 400 /\ lookups = <<>> /\ reads = {})
       /\ (call.model_type \in Selectors /\ ~InVocabulary(call.model_type, call.word))
          => /\ Status(result) = 200
             /\ result.val.in_vocabulary = FALSE
             /\ result.val.similar_words = <<>>
             /\ result.val.message # None

\* the TF-IDF tables are in memory and the word is not one of theirs
C13_Witness ==
    /\ call.op = "GET /similarity/word"
    /\ call.model_type = "tfidf"
    /\ loader._tfidf_vocab # None
    /\ loader._tfidf_embeddings # None
    /\ normalize(call.word) \notin DOMAIN The(loader._tfidf_vocab)
    /\ Status(result) = 200
    /\ result.val.in_vocabulary = FALSE
    /\ result.val.message # None

\* C14: a similarity request for a model whose artifact cannot be loaded is
\* answered with status 500, never with a successful response.
C14_LoadFailureIs500 ==
    (/\ call.op = "GET /similarity/word"
     /\ call.model_type \in Selectors
     /\ ~(ExpectedFiles(call.model_type) \subseteq exists))
    => Status(result) = 500

\* the file of the CBOW model is missing and the request is answered 200
C14_Witness ==
    /\ call.op = "GET /similarity/word"
    /\ call.model_type = "word2vec_cbow"
    /\ "word2vec_cbow" \notin exists
    /\ Status(result) = 200
    /\ result.val.in_vocabulary = FALSE
    /\ result.val.message # None

\* C15: for n_samples >= 2 and a requested perplexity in 5..100, the perplexity
\* reduce_tsne builds TSNE with is below n_samples.
C15_PerplexityBelowSamples ==
    (/\ call.op = "reduce_tsne"
     /\ call.n_samples >= 2
     /\ call.perplexity >= 5
     /\ call.perplexity <= 100)
    => \A i \in DOMAIN perplexities : perplexities[i] < call.n_samples

\* 30 requested on 5 samples: TSNE is built with 5, a build that checks the
\* perplexity rejects it, and the array returned is the PCA fallback's
C15_Witness ==
    /\ call.op = "reduce_tsne"
    /\ call.n_samples = 5
    /\ call.perplexity = 30
    /\ perplexities = <<5>>
    /\ tsne_fails = "checks_perplexity"
    /\ result.exc = NoException
    /\ result.val.method = "pca"

\* C16: lines 209-215 with method t-SNE on n_valid >= 2 vectors build TSNE
\* with the perplexity min(requested, max(2, n_valid div 3)).
C16_NeighborhoodPerplexity ==
    (/\ call.op = "reduce_neighborhood"
     /\ call.method = "tsne"
     /\ call.n_samples >= 2)
    => perplexities = <<Min(call.perplexity, Max(2, call.n_samples \div 3))>>

\* 30 requested for 18 vectors: line 214 gives 6, line 84 lowers it to 5
C16_Witness ==
    /\ call.op = "reduce_neighborhood"
    /\ call.method = "tsne"
    /\ call.n_samples = 18
    /\ call.perplexity = 30
    /\ perplexities = <<5>>

\* C17: in the TF-IDF ranking, words with equal similarity scores appear in
\* ascending order of their vocabulary index.
C17_TiesAscendingIndex ==
    (/\ call.op = "get_similar_words"
     /\ call.model_type = "tfidf"
     /\ result.exc = NoException
     /\ result.val[2] = TRUE)
    => LET similar == result.val[1]
           vocab == The(loader._tfidf_vocab)
       IN  \A i, j \in DOMAIN similar :
               (i < j /\ similar[i][2] = similar[j][2])
               => vocab[similar[i][1]] < vocab[similar[j][1]]

\* a stable argsort: of the two words tied behind "ab", the later row comes first
C17_Witness ==
    /\ call.op = "get_similar_words"
    /\ call.model_type = "tfidf"
    /\ argsort_ties = "ascending"
    /\ result.exc = NoException
    /\ Len(result.val[1]) = 3
    /\ result.val[1][2][2] = result.val[1][3][2]
    /\ result.val[1][2][1] = wc
    /\ result.val[1][3][1] = wb

\* the vocabulary and the frequency table the store holds
VocabularyOf(model_type) ==
    IF model_type = "tfidf" THEN The(loader._tfidf_vocab)
    ELSE loader._models[model_type].key_to_index

EmbeddingOf(model_type, w) ==
    IF model_type = "tfidf" THEN The(loader._tfidf_embeddings)[VocabularyOf("tfidf")[w]]
    ELSE loader._models[model_type].vectors[VocabularyOf(model_type)[w]]

FrequencyOf(w) ==
    IF loader._word_frequencies = None THEN 0
    ELSE FreqOf(The(loader._word_frequencies), w)

\* C18: for word_count >= 0, get_all_embeddings returns min(word_count,
\* vocabulary size) distinct vocabulary words in non-increasing order of
\* frequency (0 for a word the table lacks), no word left out is more frequent
\* than one taken, and row i is the embedding of word i; get_reduced_embeddings
\* returns that same word list, with the frequencies and the rows beside it.
C18_TopWordsByFrequency ==
    /\ (/\ call.op = "get_all_embeddings"
        /\ call.model_type \in Selectors
        /\ result.exc = NoException)
       => LET rows == result.val[1]
              words == result.val[2]
              vocab == VocabularyOf(call.model_type)
          IN  /\ Len(words) = Min(call.num_words, Cardinality(DOMAIN vocab))
              /\ Len(rows) = Len(words)
              /\ \A i \in DOMAIN words : words[i] \in DOMAIN vocab
              /\ \A i, j \in DOMAIN words : i # j => words[i] # words[j]
              /\ \A i, j \in DOMAIN words :
                     i < j => FrequencyOf(words[i]) >= FrequencyOf(words[j])
              /\ \A w \in DOMAIN vocab, i \in DOMAIN words :
                     w \notin Range(words) => FrequencyOf(w) <= FrequencyOf(words[i])
              /\ \A i \in DOMAIN words : rows[i] = EmbeddingOf(call.model_type, words[i])
    /\ (/\ call.op = "get_reduced_embeddings"
        /\ call.model_type \in Selectors
        /\ result.exc = NoException
        /\ result.val[2] # <<>>)
       => LET all == get_all_embeddings(Machine, call.model_type, call.num_words).val
          IN  /\ result.val[2] = all[2]
              /\ result.val[1].input = all[1]
              /\ Len(result.val[3]) = Len(result.val[2])
              /\ \A i \in DOMAIN result.val[2] :
                     result.val[3][i] = FrequencyOf(result.val[2][i])

\* two of the four TF-IDF words are taken: the most frequent, then the first of
\* the two that tie behind it
C18_Witness ==
    /\ call.op = "get_all_embeddings"
    /\ call.model_type = "tfidf"
    /\ call.num_words = 2
    /\ loader._word_frequencies # None
    /\ result.exc = NoException
    /\ result.val[2] = <<wb, wa>>

\* a (word, score) pair of the Similarity Engine whose vector can be retrieved
Retrievable(pair) == get_word_vector(Machine, pair[1], call.model_type).val # None

\* C19: a non-empty result of get_word_neighborhood has as many coordinate rows
\* as words and as similarities, at most num_neighbors + 1; the first word is
\* the query word with similarity 1.0, and after it come the neighbours that
\* get_similar_words returned, in its order and with its scores, those without
\* a retrievable vector left out; each row is projected from its word's vector.
C19_NeighborhoodShape ==
    (/\ call.op = "get_word_neighborhood"
     /\ result.exc = NoException
     /\ result.val[2] # <<>>)
    => LET rows == result.val[1].input
           words == result.val[2]
           similarities == result.val[3]
           similar == get_similar_words(Machine, call.word, call.model_type,
                                        call.num_neighbors).val[1]
           kept == SelectSeq(similar, Retrievable)
       IN  /\ Len(rows) = Len(words)
           /\ Len(similarities) = Len(words)
           /\ Len(words) <= call.num_neighbors + 1
           /\ words[1] = call.word
           /\ similarities[1] = SCALE
           /\ Len(words) = Len(kept) + 1
           /\ \A i \in DOMAIN kept :
                  /\ words[i + 1] = kept[i][1]
                  /\ similarities[i + 1] = kept[i][2]
           /\ \A i \in DOMAIN words :
                  Some(rows[i]) = get_word_vector(Machine, words[i], call.model_type).val

\* the padded upper-case spelling of "a" in the CBOW model: of its three
\* neighbours the nearest, "C", has no retrievable vector and is left out
C19_Witness ==
    /\ call.op = "get_word_neighborhood"
    /\ call.model_type = "word2vec_cbow"
    /\ call.word = <<"A", " ">>
    /\ call.num_neighbors = 5
    /\ result.exc = NoException
    /\ get_similar_words(Machine, call.word, call.model_type, call.num_neighbors).val[1]
           = <<<<wC, SCALE>>, <<wb, 800000>>, <<wab, 600000>>>>
    /\ result.val[2] = <<<<"A", " ">>, wb, wab>>
    /\ result.val[3] = <<SCALE, 800000, 600000>>
    /\ Len(result.val[1].input) = 3

\* C20: a get_word_neighborhood call leaves the reduction cache as it found
\* it, whatever its outcome; its result does not depend on what the cache
\* holds; and every non-empty result was projected in that call.
C20_NeighborhoodBypassesCache ==
    call.op = "get_word_neighborhood"
    => /\ _cache = before.cache
       /\ result.val = get_word_neighborhood([MachineBefore EXCEPT !.cache = EmptyDict],
                                             call.word, call.model_type, call.method,
                                             call.num_neighbors, call.perplexity).val
       /\ (result.exc = NoException /\ result.val[2] # <<>>) => Len(proj) = 1
       /\ (InVocabulary(call.model_type, call.word) /\ RetrievableVectors(call) >= 2)
          => proj # <<>>

\* the cache holds reductions, the same neighborhood was asked for before, and
\* the projection is run again
C20_Witness ==
    /\ call.op = "get_word_neighborhood"
    /\ call.model_type = "tfidf"
    /\ InVocabulary(call.model_type, call.word)
    /\ before.cache # EmptyDict
    /\ _cache = before.cache
    /\ before.loader = loader
    /\ result.exc = NoException
    /\ result.val[2] # <<>>
    /\ proj = <<call.method>>

\* the t-SNE computation of the last reduce_tsne failed
TsneFailed ==
    /\ call.op \in {"reduce_tsne", "reduce_neighborhood"}
    /\ perplexities # <<>>
    /\ TSNE_raises(perplexities[1], call.n_samples)

\* C21 (as amended): when the t-SNE computation fails inside reduce_tsne on an
\* input of at least 2 rows, the call does not raise and returns the PCA
\* projection of the same input, one row per input row, also when reached
\* from the neighborhood's reduction step; on an input of fewer than 2 rows
\* the PCA of the fallback raises in its turn.
C21_TsneFallback ==
    TsneFailed
    => /\ proj = <<"tsne", "pca">>
       /\ call.n_samples >= 2
          => /\ result.exc = NoException
             /\ result.val = Array2D("pca", 0, SampleRows(call.n_samples))
             /\ Len(result.val.input) = call.n_samples
       /\ call.n_samples < 2 => result.exc = "ValueError"

\* a scikit-learn that rejects n_iter: ten rows come back projected by PCA
C21_Witness ==
    /\ call.op = "reduce_tsne"
    /\ call.n_samples = 10
    /\ tsne_fails = "rejects_n_iter"
    /\ proj = <<"tsne", "pca">>
    /\ result.exc = NoException
    /\ result.val.method = "pca"

\* C21 as stated: whenever the t-SNE computation fails inside reduce_tsne, the
\* call does not raise.
C21_FallbackNeverRaises ==
    TsneFailed => result.exc = NoException

\* requests i and j asked for the same tuple, i was served while j waited,
\* i found its key uncached and succeeded, and both have been answered
SimultaneousSameKey(i, j) ==
    /\ i # j
    /\ requests[i].state = "served"
    /\ requests[j].state = "served"
    /\ j \in requests[i].with
    /\ requests[i].args = requests[j].args
    /\ ~requests[i].cached
    /\ requests[i].response.exc = NoException

\* C22 (as amended): of two simultaneous GET /embeddings requests for the same
\* uncached key the event loop serves one to its end before the other: the
\* first runs the projection and writes the cache, the second is answered
\* from that entry and runs none; afterwards the cache holds the entry of
\* that key, equal to what the first computed, and both responses are equal.
C22_SimultaneousServedInTurn ==
    \A i, j \in DOMAIN requests :
        SimultaneousSameKey(i, j)
        => /\ Len(requests[i].proj) >= 1
           /\ requests[j].proj = <<>>
           /\ requests[j].response = requests[i].response
           /\ KeyOf(requests[i].args) \in DOMAIN _cache
           /\ \A k \in DOMAIN requests[i].response.val.points :
                  requests[i].response.val.points[k].word = _cache[KeyOf(requests[i].args)][2][k]

\* both requests were waiting together, and both have been answered
C22_Witness ==
    /\ Len(requests) >= 2
    /\ SimultaneousSameKey(1, 2)
    /\ requests[2].with = {}
    /\ requests[1].args.method = "tsne"
    /\ requests[2].response.exc = NoException

\* C22 as stated: two simultaneous requests for the same uncached key both run
\* the projection.
C22_BothRunProjection ==
    \A i, j \in DOMAIN requests :
        SimultaneousSameKey(i, j)
        => /\ requests[i].proj # <<>>
           /\ requests[j].proj # <<>>

\* the requests answered so far
Served == {i \in DOMAIN requests : requests[i].state = "served"}

\* what a request for the tuple gets when nothing is cached
ComputedAlone(args) ==
    GET_embeddings([Machine EXCEPT !.cache = EmptyDict], args.model_type, args.method,
                   args.num_words, args.perplexity)

\* C24: GET /embeddings requests whose (model, method, word_count, perplexity)
\* tuples differ have different cache keys and share no entry: a request whose
\* tuple no other request has is never answered from the cache, every
\* response is what its own tuple computes, and the cache holds one entry for
\* each tuple that was answered successfully.
C24_KeysSeparateTuples ==
    /\ \A i, j \in DOMAIN requests :
          requests[i].args # requests[j].args
          => KeyOf(requests[i].args) # KeyOf(requests[j].args)
    /\ \A j \in Served :
          (\A i \in Served : i # j => requests[i].args # requests[j].args)
          => /\ ~requests[j].cached
             /\ requests[j].response.exc = NoException => requests[j].proj # <<>>
    /\ call.op = "GET /embeddings"
       => /\ result.exc = ComputedAlone(call).exc
          /\ result.val = ComputedAlone(call).val
    /\ DOMAIN _cache =
           {KeyOf(requests[j].args) :
               j \in {i \in Served : requests[i].response.exc = NoException}}

\* two answered requests that differ in the perplexity alone, each computed
C24_Witness ==
    /\ Len(requests) >= 2
    /\ Served = DOMAIN requests
    /\ requests[1].args = [requests[2].args EXCEPT !.perplexity = DEFAULT_PERPLEXITY]
    /\ requests[2].args.perplexity = TSNE_MIN_PERPLEXITY
    /\ requests[1].args.method = "tsne"
    /\ requests[1].proj # <<>>
    /\ requests[2].proj # <<>>
    /\ Cardinality(DOMAIN _cache) >= 2

\* the last operation run again from the state it started in, on another
\* spelling of its word
Respelled(word) ==
    IF call.op = "is_word_in_vocab" THEN is_word_in_vocab(MachineBefore, word, call.model_type)
    ELSE IF call.op = "get_word_vector" THEN get_word_vector(MachineBefore, word, call.model_type)
    ELSE get_similar_words(MachineBefore, word, call.model_type, call.topn)

SameOutcome(r) ==
    /\ r.exc = result.exc
    /\ r.val = result.val
    /\ r.m.loader = loader

\* C23: is_word_in_vocab, get_similar_words and get_word_vector give for a
\* word w what they give for lowercase(trim(w)), and normalizing a second
\* time changes nothing.
C23_NormalizedFirst ==
    call.op \in {"is_word_in_vocab", "get_word_vector", "get_similar_words"}
    => /\ SameOutcome(Respelled(normalize(call.word)))
       /\ SameOutcome(Respelled(lower(strip(call.word))))
       /\ normalize(normalize(call.word)) = normalize(call.word)

\* "A " is found in the TF-IDF vocabulary, where only "a" is a key
C23_Witness ==
    /\ call.op = "is_word_in_vocab"
    /\ call.model_type = "tfidf"
    /\ call.word = <<"A", " ">>
    /\ result.exc = NoException
    /\ result.val = TRUE
    /\ loader._tfidf_vocab # None
    /\ call.word \notin DOMAIN The(loader._tfidf_vocab)

\* C25: every successful response of the vocabulary endpoint holds at most
\* sample_size words, all of the selected model's vocabulary, in non-increasing
\* order of frequency.
C25_VocabularySample ==
    (call.op = "GET /models/vocabulary" /\ Status(result) = 200)
    => LET words == result.val.sample_words
       IN  /\ Len(words) <= call.sample_size
           /\ \A i \in DOMAIN words : words[i] \in DOMAIN VocabularyOf(call.model_type)
           /\ \A i, j \in DOMAIN words :
                  i < j => FrequencyOf(words[i]) >= FrequencyOf(words[j])

\* sample_size = -1: three of the four TF-IDF words come back
C25_Witness ==
    /\ call.op = "GET /models/vocabulary"
    /\ call.model_type = "tfidf"
    /\ call.sample_size = -1
    /\ Status(result) = 200
    /\ result.val.sample_words = <<wb, wa, wc>>

\* the points of the last neighborhood response that are marked as the query
QueryPoints == {i \in DOMAIN result.val.points : result.val.points[i].is_query}

\* C26: every successful neighborhood response has exactly one point with
\* is_query = true, and that point is the query word's (the first).
C26_OneQueryPoint ==
    (call.op = "GET /embeddings/neighborhood" /\ Status(result) = 200)
    => QueryPoints = {1}

\* "A " resolves to the TF-IDF word "a": the response has its four points and
\* none of them is marked
C26_Witness ==
    /\ call.op = "GET /embeddings/neighborhood"
    /\ call.model_type = "tfidf"
    /\ call.word = <<"A", " ">>
    /\ Status(result) = 200
    /\ result.val.query_word = wa
    /\ Len(result.val.points) = 4
    /\ QueryPoints = {}

\* C29: the neighborhood endpoint rejects a method that is neither pca nor
\* tsne and runs no projection for it; for pca it runs PCA alone and for tsne
\* it builds t-SNE.
C29_NeighborhoodMethod ==
    call.op = "GET /embeddings/neighborhood"
    => /\ call.method \notin {"pca", "tsne"}
          => (Status(result) # 200 /\ proj = <<>>)
       /\ call.method = "pca" => proj \in {<<>>, <<"pca">>}
       /\ call.method = "tsne" => proj \in {<<>>, <<"tsne">>, <<"tsne", "pca">>}

\* method=umap for a TF-IDF word: t-SNE is run and the response is a success
C29_Witness ==
    /\ call.op = "GET /embeddings/neighborhood"
    /\ call.method = "umap"
    /\ call.model_type = "tfidf"
    /\ Status(result) = 200
    /\ result.val.reduction_method = "umap"
    /\ proj = <<"tsne">>

\* C27: the TF-IDF matrix, the word-to-index table and the index-to-word table
\* are all loaded or all unloaded in every state of the store, and with a
\* TF-IDF file missing every TF-IDF accessor call fails with the
\* missing-artifact condition.
C27_TfidfAllOrNothing ==
    /\ (loader._tfidf_embeddings = None) = (loader._tfidf_vocab = None)
    /\ (loader._tfidf_vocab = None) = (loader._tfidf_idx_to_word = None)
    /\ (/\ call.op \in {"get_tfidf_embeddings", "get_tfidf_vocab", "get_tfidf_idx_to_word"}
        /\ ~(ExpectedFiles("tfidf") \subseteq exists))
       => result.exc = "FileNotFoundError"

\* the matrix is in memory without its tables, and get_tfidf_vocab returns
\* None without raising
C27_Witness ==
    /\ call.op = "get_tfidf_vocab"
    /\ "tfidf_vocab" \notin exists
    /\ loader._tfidf_embeddings # None
    /\ loader._tfidf_vocab = None
    /\ loader._tfidf_idx_to_word = None
    /\ result.exc = NoException
    /\ result.val = None

\* the keys of the calls made with method tsne
TsneKeys ==
    {_get_cache_key(model_type, "tsne", num_words, perplexity) :
        model_type \in ReductionModelInputs, num_words \in NumWordsInputs,
        perplexity \in PerplexityInputs}

\* C28: every entry of the reduction cache under a key with method tsne holds
\* coordinates produced by t-SNE, and a tsne call answered from the cache
\* returns coordinates produced by t-SNE.
C28_TsneEntriesFromTsne ==
    /\ \A k \in DOMAIN _cache \cap TsneKeys : _cache[k][1].method = "tsne"
    /\ (/\ call.op = "get_reduced_embeddings"
        /\ call.method = "tsne"
        /\ call.use_cache
        /\ KeyOf(call) \in DOMAIN before.cache)
       => result.val[1].method = "tsne"

\* a tsne call is answered from the cache, with no projection run, by the PCA
\* coordinates an earlier fallback stored
C28_Witness ==
    /\ call.op = "get_reduced_embeddings"
    /\ call.method = "tsne"
    /\ call.use_cache
    /\ KeyOf(call) \in DOMAIN before.cache
    /\ proj = <<>>
    /\ result.exc = NoException
    /\ result.val[1].method = "pca"
    /\ result.val = _cache[KeyOf(call)]

\* C30: a get_reduced_embeddings call with use_cache = FALSE runs the
\* projection whenever it returns words, also with its key in the cache, and
\* leaves the cache as it was; a call that finds no words returns the empty
\* results and leaves the cache as it was.
C30_UncachedLeavesCache ==
    call.op = "get_reduced_embeddings"
    => /\ ~call.use_cache
          => /\ (result.exc = NoException /\ result.val[2] # <<>>) => proj # <<>>
             /\ _cache = before.cache
       /\ (result.exc = NoException /\ result.val[2] = <<>>)
          => /\ result.val = <<EmptyArray, <<>>, <<>>>>
             /\ _cache = before.cache

\* a call with use_cache = FALSE and its key not in the cache leaves an entry
\* under that key
C30_Witness ==
    /\ call.op = "get_reduced_embeddings"
    /\ ~call.use_cache
    /\ KeyOf(call) \notin DOMAIN before.cache
    /\ proj # <<>>
    /\ result.exc = NoException
    /\ DOMAIN _cache = DOMAIN before.cache \cup {KeyOf(call)}
    /\ _cache[KeyOf(call)] = result.val

====
